---- MODULE Spec2Model ----
(***************************************************************************)
(* The simplebridge network driver (extensions/simplebridge/driver.go):    *)
(* concurrent callers of AddNetwork, RemoveNetwork, Link and Unlink over   *)
(* one BridgeDriver, its property store, its mutex and the kernel's        *)
(* devices, addresses and firewall rules.                                  *)
(***************************************************************************)
EXTENDS Integers, Sequences, FiniteSets, TLC

\* ---------------------------------------------------------------- constants
maxVethName == 10
maxVethSuffixLen == 2
maxVethSuffix == 99
StatusOK == 0
StatusErr == 1
StatusNotFound == 127

\* ------------------------------------------------------------------- bounds
MaxCalls == 2
MaxFaults == 1
NumSubnets == 2
NumHosts == 2
\* helper checks: suffixes that may be taken at the start, rules in the chain
MaxLive == 3
MaxRules == 2

\* the jobs: one that is never registered, one with a handler, one without
Jobs == {"serveapi", "netjoin", "nocommand"}
\* the callers: two goroutines of the daemon, each making one call at a time
Procs == {1, 2}
NetIds == {"net", "default"}
\* endpoint names: a short one, one of maxVethName characters, one longer
EpNames == {"eth0", "container1", "averylongname"}
\* the -peer option: its default is the environment's DOCKER_PEER
Peers == {"10.0.0.9"}
Subnets == 1..NumSubnets
Hosts == 1..NumHosts

\* error values returned by the operations ("" while a call is in progress)
OK == "ok"
NotFound == "NotFound"
NameTooLong == "NameTooLong"
AlreadyExists == "AlreadyExists"
NoEndpoint == "NoEndpoint"
AllocationExhausted == "AllocationExhausted"
KernelOperationFailed == "KernelOperationFailed"
PersistenceFailed == "PersistenceFailed"
EngineShutdown == "engine is shutdown"
AlreadyCompleted == "job has already completed"
JobFailed == "JobFailed"
CloseFailed == "CloseFailed"

VARIABLES
  mutex,      \* d.mutex: 0 when unlocked, else the caller that locked it
  netEntity,  \* property store: the network entities that exist
  netProp,    \* property store: bridgeInterface and address of each network
  epEntity,   \* property store: the endpoint entities that exist
  epProp,     \* property store: interfaceName, hwAddr, mtu, ip of each endpoint
  links,      \* kernel: the live devices
  addrs,      \* kernel: <<device name, subnet>> addresses assigned
  ups,        \* kernel: names of the devices that are up
  masters,    \* kernel: <<device, master>> pairs
  ipForward,  \* /proc/sys/net/ipv4/ip_forward
  rules,      \* iptables: the rules, first rule first
  chains,     \* forwarding chains marked by MakeChain
  pc,         \* where each caller is
  op,         \* the call each caller is making
  loc,        \* the locals of that call
  ret,        \* the operation each caller called last and what it returned
  ncalls,     \* calls started so far
  nfaults,    \* kernel and store operations that failed so far
  removed,    \* history: the ids RemoveNetwork was called for
  unlinked,   \* history: the endpoints an Unlink removed
  shutdown,   \* engine: whether the engine is shut down
  running,    \* engine: Eng.running, the entries of the registered Run calls
  tasks,      \* engine: Eng.tasks, the count of the wait group
  jobEnd,     \* the jobs whose end time is set
  jobStatus,  \* job.status of each job
  handled     \* history: how many times each job was handed to its handler

vars == <<mutex, netEntity, netProp, epEntity, epProp, links, addrs, ups,
          masters, ipForward, rules, chains, pc, op, loc, ret, ncalls,
          nfaults, removed, unlinked, shutdown, running, tasks, jobEnd,
          jobStatus, handled>>

engine == <<shutdown, running, tasks, jobEnd, jobStatus, handled>>
driver == <<mutex, netEntity, netProp, epEntity, epProp, links, addrs, ups,
            masters, ipForward, rules, chains, removed, unlinked>>
store == <<netEntity, netProp, epEntity, epProp>>
kernel == <<links, addrs, ups, masters, ipForward, rules, chains>>

\* ------------------------------------------------------------ property store
NoNetProp == [bridgeInterface |-> "", address |-> ""]
NoEpProp == [interfaceName |-> "", hwAddr |-> "", mtu |-> "", ip |-> ""]

\* strconv.Itoa / ip.String(): the text persisted for a number
Itoa(n) == ToString(n)

\* strconv.ParseUint / net.ParseIP: the number a persisted text stands for
\* (0 when it is no number, as the callers ignore the error)
Numerals == 0..(NumSubnets + NumHosts) \cup {1500}

ParseUint(s) ==
  IF \E n \in Numerals : ToString(n) = s
  THEN CHOOSE n \in Numerals : ToString(n) = s
  ELSE 0

\* ------------------------------------------------------------------- kernel
LinkNames == {l.name : l \in links}

LinkByName(name) == name \in LinkNames

\* netlink.LinkDel: the device and everything attached to it go
LinkDel(ls, name) == {l \in ls : l.name # name}

\* ----------------------------------------------------------------- iptables
NatRule(iface, addr) == [k |-> "MASQUERADE", iface |-> iface, addr |-> addr]
AcceptRule(iface) == [k |-> "ICC_ACCEPT", iface |-> iface, addr |-> 0]
DropRule(iface) == [k |-> "ICC_DROP", iface |-> iface, addr |-> 0]
OutgoingRule(iface) == [k |-> "OUTGOING", iface |-> iface, addr |-> 0]
ExistingRule(iface) == [k |-> "ESTABLISHED", iface |-> iface, addr |-> 0]

\* iptables.Exists
Exists(rs, r) == \E i \in 1..Len(rs) : rs[i] = r

\* iptables -I: insert at the head of the chain
Insert(rs, r) == <<r>> \o rs

\* iptables -D: delete the first rule that matches (an error, ignored by the
\* caller, when there is none)
Delete(rs, r) ==
  IF Exists(rs, r)
  THEN LET i == CHOOSE j \in 1..Len(rs) :
                  rs[j] = r /\ \A h \in 1..(j - 1) : rs[h] # r
       IN  SubSeq(rs, 1, i - 1) \o SubSeq(rs, i + 1, Len(rs))
  ELSE rs

\* one "if !Exists { -I }" block: failing when the insert is the step that fails
InsertOnce(st, r, fails) ==
  IF st.err # OK \/ Exists(st.rules, r) THEN st
  ELSE IF fails THEN [st EXCEPT !.err = KernelOperationFailed]
  ELSE [st EXCEPT !.rules = Insert(st.rules, r)]

\* setupIPTables without the removal of the opposite inter-container rule
setupIPTables_noDelete(rs, fwd, bridgeIface, addr, icc, ipmasq, failAt) ==
  IF failAt = 1 THEN [rules |-> rs, fwd |-> fwd, err |-> KernelOperationFailed]
  ELSE
    LET s0 == [rules |-> rs, fwd |-> TRUE, err |-> OK]
        s1 == IF ipmasq THEN InsertOnce(s0, NatRule(bridgeIface, addr), failAt = 2)
              ELSE s0
        s2 == IF s1.err # OK THEN s1
              ELSE IF ~icc
              THEN InsertOnce(s1, DropRule(bridgeIface), failAt = 3)
              ELSE InsertOnce(s1, AcceptRule(bridgeIface), failAt = 3)
        s3 == InsertOnce(s2, OutgoingRule(bridgeIface), failAt = 4)
        s4 == InsertOnce(s3, ExistingRule(bridgeIface), failAt = 5)
    IN  s4

\* setupIPTables: failAt names the step that fails (0: none, 1: the ip_forward
\* write, 2: NAT, 3: inter-container rule, 4: outgoing, 5: established)
setupIPTables(rs, fwd, bridgeIface, addr, icc, ipmasq, failAt) ==
  IF failAt = 1 THEN [rules |-> rs, fwd |-> fwd, err |-> KernelOperationFailed]
  ELSE
    LET s0 == [rules |-> rs, fwd |-> TRUE, err |-> OK]
        s1 == IF ipmasq THEN InsertOnce(s0, NatRule(bridgeIface, addr), failAt = 2)
              ELSE s0
        s2 == IF s1.err # OK THEN s1
              ELSE IF ~icc
              THEN InsertOnce([s1 EXCEPT !.rules = Delete(s1.rules, AcceptRule(bridgeIface))],
                              DropRule(bridgeIface), failAt = 3)
              ELSE InsertOnce([s1 EXCEPT !.rules = Delete(s1.rules, DropRule(bridgeIface))],
                              AcceptRule(bridgeIface), failAt = 3)
        s3 == InsertOnce(s2, OutgoingRule(bridgeIface), failAt = 4)
        s4 == InsertOnce(s3, ExistingRule(bridgeIface), failAt = 5)
    IN  s4

\* ------------------------------------------------------------- IP allocator
\* NewIPAllocator(bridgeName, subnet, ...): the addresses in exclusions are
\* taken from the start
NewIPAllocator(bridgeName, subnet, exclusions) ==
  [bridgeName |-> bridgeName, subnet |-> subnet, allocated |-> exclusions]

\* Allocate: the lowest unused host address of the subnet, 0 when it is full
Allocate(a) ==
  IF Hosts \ a.allocated = {} THEN 0
  ELSE CHOOSE h \in Hosts \ a.allocated : \A g \in Hosts \ a.allocated : h <= g

\* ------------------------------------------------------- networks, endpoints
NilNet ==
  [bridge |-> "", vxlan |-> "", ID |-> "", network |-> 0,
   ipallocator |-> NewIPAllocator("", 0, {})]

NilEp == [ID |-> "", interfaceName |-> "", hwAddr |-> "", mtu |-> 0, ip |-> 0]

loadNetwork(id) ==
  LET iface == netProp[id].bridgeInterface
      addr == netProp[id].address
  IN  IF iface = "" THEN [err |-> NotFound, net |-> NilNet]
      ELSE IF addr = "" THEN [err |-> NotFound, net |-> NilNet]
      ELSE [err |-> OK,
            net |-> [bridge |-> iface, vxlan |-> "", ID |-> id,
                     network |-> ParseUint(addr),
                     ipallocator |-> NewIPAllocator(iface, ParseUint(addr), {})]]

loadEndpoint(name, endpoint) ==
  LET e == epProp[<<name, endpoint>>]
  IN  IF e.interfaceName = "" \/ e.hwAddr = "" \/ e.mtu = "" \/ e.ip = ""
      THEN [err |-> NotFound, ep |-> NilEp]
      ELSE IF loadNetwork(name).err # OK
      THEN [err |-> loadNetwork(name).err, ep |-> NilEp]
      ELSE [err |-> OK,
            ep |-> [ID |-> endpoint, interfaceName |-> e.interfaceName,
                    hwAddr |-> e.hwAddr, mtu |-> ParseUint(e.mtu),
                    ip |-> ParseUint(e.ip)]]

\* the endpoints of a network that have an address persisted
Linked(id) == {e \in EpNames : epProp[<<id, e>>].ip # ""}

\* ------------------------------------------------------------- getInterface
\* a probe that takes the first name without asking the kernel
probe_noLookup(prefix, i) ==
  IF i >= maxVethSuffix
  THEN [err |-> AllocationExhausted, ethName |-> ""]
  ELSE [err |-> OK, ethName |-> prefix \o ToString(i)]

RECURSIVE probe(_, _)
probe(prefix, i) ==
  IF /\ i < maxVethSuffix
     /\ Len(prefix \o ToString(i)) <= maxVethName + maxVethSuffixLen
     /\ LinkByName(prefix \o ToString(i))
  THEN probe(prefix, i + 1)
  ELSE IF i >= maxVethSuffix
  THEN [err |-> AllocationExhausted, ethName |-> ""]
  ELSE IF Len(prefix \o ToString(i)) > maxVethName + maxVethSuffixLen
  THEN [err |-> NameTooLong, ethName |-> ""]
  ELSE [err |-> OK, ethName |-> prefix \o ToString(i)]

\* GetBridgeIP: the next subnet of the pool that no live device has, 0 when
\* there is none
GetBridgeIP ==
  LET free == {s \in Subnets : \A a \in addrs : a[2] # s}
  IN  IF free = {} THEN 0
      ELSE CHOOSE s \in free : \A t \in free : s <= t

\* destroyBridge(b, v): the overlay device if any, then the bridge
destroyBridge(ls, b, v, failV, failB) ==
  IF v # "" /\ (failV \/ v \notin {l.name : l \in ls})
  THEN [links |-> ls, err |-> KernelOperationFailed]
  ELSE LET l1 == IF v # "" THEN LinkDel(ls, v) ELSE ls
       IN  IF failB \/ b \notin {l.name : l \in l1}
           THEN [links |-> l1, err |-> KernelOperationFailed]
           ELSE [links |-> LinkDel(l1, b), err |-> OK]

\* ------------------------------------------------------------------ callers
NoOp ==
  [name |-> "", id |-> "", ep |-> "", replace |-> FALSE, peer |-> "",
   icc |-> TRUE, ipmasq |-> TRUE, job |-> ""]

NoRet == [op |-> "", err |-> ""]

NoLoc ==
  [giFor |-> "", ethName |-> "", bridge |-> "", addr |-> 0, vxlan |-> "",
   network |-> NilNet, ep |-> NilEp, busy |-> {}]

\* the -dev option's default
Device == "eth0"

\* the state a previous run of the driver left behind, which Restore binds to:
\* nothing, or network "net" on bridge net0 with some endpoints linked
RestoredEndpoints(eps) ==
  [k \in NetIds \X EpNames |->
     IF k[1] = "net" /\ k[2] \in eps
     THEN [interfaceName |-> "veth" \o k[2], hwAddr |-> "02:42:" \o k[2],
           mtu |-> Itoa(1500),
           ip |-> Itoa(IF k[2] = "eth0" THEN 1 ELSE 2)]
     ELSE NoEpProp]

Restore(hasNet, eps) ==
  /\ netEntity = IF hasNet THEN {"net"} ELSE {}
  /\ netProp = [i \in NetIds |->
                  IF hasNet /\ i = "net"
                  THEN [bridgeInterface |-> "net0", address |-> Itoa(1)]
                  ELSE NoNetProp]
  /\ epEntity = {<<"net", e>> : e \in eps}
  /\ epProp = RestoredEndpoints(eps)
  /\ links = IF hasNet
             THEN {[name |-> "net0", kind |-> "bridge", prefix |-> "net"]}
                  \cup {[name |-> "veth" \o e, kind |-> "veth", prefix |-> "veth"] :
                          e \in eps}
             ELSE {}
  /\ addrs = IF hasNet THEN {<<"net0", 1>>} ELSE {}
  /\ ups = IF hasNet THEN {"net0"} \cup {"veth" \o e : e \in eps} ELSE {}
  /\ masters = {<<"veth" \o e, "net0">> : e \in eps}
  /\ ipForward = hasNet
  /\ rules = IF hasNet
             THEN setupIPTables(<<>>, FALSE, "net", 1, TRUE, TRUE, 0).rules
             ELSE <<>>
  /\ chains = IF hasNet THEN {<<"net", "net0">>} ELSE {}

\* a new engine: not shut down, nothing running, no job run yet
NewEngine ==
  /\ shutdown = FALSE
  /\ running = {}
  /\ tasks = 0
  /\ jobEnd = {}
  /\ jobStatus = [j \in Jobs |-> StatusOK]
  /\ handled = [j \in Jobs |-> 0]

Init ==
  /\ NewEngine
  /\ \E hasNet \in BOOLEAN :
       \E eps \in {{}, {"eth0"}, {"eth0", "container1"}} :
         /\ (hasNet <=> eps # {})
         /\ Restore(hasNet, eps)
  /\ mutex = 0
  /\ pc = [p \in Procs |-> "idle"]
  /\ op = [p \in Procs |-> NoOp]
  /\ loc = [p \in Procs |-> NoLoc]
  /\ ret = [p \in Procs |-> NoRet]
  /\ ncalls = 0
  /\ nfaults = 0
  /\ removed = {}
  /\ unlinked = {}

\* whether a kernel or store operation succeeds is the environment's choice
Outcomes == IF nfaults < MaxFaults THEN BOOLEAN ELSE {TRUE}

Fault(ok) == nfaults' = IF ok THEN nfaults ELSE nfaults + 1

\* a call starts
Call(p) ==
  /\ pc[p] = "idle"
  /\ ncalls < MaxCalls
  /\ ncalls' = ncalls + 1

\* the call goes on at label with its arguments o and locals l
Begin(p, label, o, l) ==
  /\ pc' = [pc EXCEPT ![p] = label]
  /\ ret' = [ret EXCEPT ![p] = NoRet]
  /\ op' = [op EXCEPT ![p] = o]
  /\ loc' = [loc EXCEPT ![p] = l]

\* the call goes on at label
Step(p, label) ==
  /\ pc' = [pc EXCEPT ![p] = label]
  /\ UNCHANGED <<ret, op, loc>>

\* the call goes on at label with locals l
StepLoc(p, label, l) ==
  /\ pc' = [pc EXCEPT ![p] = label]
  /\ loc' = [loc EXCEPT ![p] = l]
  /\ UNCHANGED <<ret, op>>

\* the call of operation name returns err: its arguments and locals are gone
Return(p, name, err) ==
  /\ pc' = [pc EXCEPT ![p] = "idle"]
  /\ ret' = [ret EXCEPT ![p] = [op |-> name, err |-> err]]
  /\ op' = [op EXCEPT ![p] = NoOp]
  /\ loc' = [loc EXCEPT ![p] = NoLoc]

\* d.mutex.Lock() waits until the mutex is unlocked, whoever locked it
Lock(p) == mutex = 0 /\ mutex' = p

\* the deferred d.mutex.Unlock()
Unlock == mutex' = 0

\* ---------------------------------------------------- property store writes
\* d.createNetwork(id): the network's entity, whether or not it was there
createNetwork(id) == netEntity' = netEntity \cup {id}

\* d.setNetworkProperty(id, key, value)
setNetworkProperty(id, key, value) ==
  /\ netProp' = [netProp EXCEPT ![id][key] = value]
  /\ netEntity' = netEntity \cup {id}

\* d.removeNetwork(id): the entity and its properties
removeNetwork(id) ==
  /\ netEntity' = netEntity \ {id}
  /\ netProp' = [netProp EXCEPT ![id] = NoNetProp]

\* d.createEndpoint(id, name)
createEndpoint(id, name) == epEntity' = epEntity \cup {<<id, name>>}

\* d.removeEndpoint(netid, name): the entity and its properties
removeEndpoint(id, name) ==
  /\ epEntity' = epEntity \ {<<id, name>>}
  /\ epProp' = [epProp EXCEPT ![<<id, name>>] = NoEpProp]

\* ep.deconfigure(name): the host side of the veth pair is deleted
deconfigure(ep) ==
  /\ links' = LinkDel(links, ep.interfaceName)
  /\ ups' = ups \ {ep.interfaceName}
  /\ masters' = {m \in masters : m[1] # ep.interfaceName}

\* ------------------------------------------------------------- getInterface
\* the prefix getInterface is called with
Prefix(p) ==
  IF loc[p].giFor = "bridge" THEN op[p].id
  ELSE IF loc[p].giFor = "vxlan" THEN "vx" \o op[p].id
  ELSE op[p].ep

\* Lock, then the probe loop
getInterface_probe(p) ==
  /\ pc[p] = "gi_probe"
  /\ mutex = 0
  /\ LET r == probe(Prefix(p), 0)
     IN  IF r.err # OK
         THEN Return(p, op[p].name, r.err) /\ UNCHANGED mutex
         ELSE Lock(p) /\ StepLoc(p, "gi_add", [loc[p] EXCEPT !.ethName = r.ethName])
  /\ UNCHANGED <<store, kernel, ncalls, nfaults, removed, unlinked>>
  /\ UNCHANGED engine

\* netlink.LinkAdd under the name probed, then the deferred Unlock
getInterface_add(p) ==
  /\ pc[p] = "gi_add"
  /\ Unlock
  /\ \E ok \in Outcomes :
       /\ Fault(ok)
       /\ IF ok /\ ~LinkByName(loc[p].ethName)
          THEN /\ links' = links \cup
                     {[name |-> loc[p].ethName, kind |-> loc[p].giFor,
                       prefix |-> Prefix(p)]}
               /\ IF loc[p].giFor = "bridge"
                  THEN StepLoc(p, "cb_getip", [loc[p] EXCEPT !.bridge = loc[p].ethName])
                  ELSE StepLoc(p, "cb_setmaster", [loc[p] EXCEPT !.vxlan = loc[p].ethName])
          ELSE /\ Return(p, op[p].name, KernelOperationFailed)
               /\ UNCHANGED links
  /\ UNCHANGED <<store, addrs, ups, masters, ipForward, rules, chains, ncalls,
                 removed, unlinked>>
  /\ UNCHANGED engine

\* --------------------------------------------------------------- GetNetwork
\* the call
GetNetwork(p, id) ==
  /\ Call(p)
  /\ Begin(p, "gn_load", [NoOp EXCEPT !.name = "GetNetwork", !.id = id], NoLoc)
  /\ UNCHANGED <<mutex, store, kernel, nfaults, removed, unlinked>>
  /\ UNCHANGED engine

\* return d.loadNetwork(id)
GetNetwork_loadNetwork(p) ==
  /\ pc[p] = "gn_load"
  /\ Return(p, "GetNetwork", loadNetwork(op[p].id).err)
  /\ UNCHANGED <<mutex, store, kernel, ncalls, nfaults, removed, unlinked>>
  /\ UNCHANGED engine

\* --------------------------------------------------------------- AddNetwork
\* the call, its flag parsing and d.createNetwork(id)
AddNetwork(p, id, peer) ==
  /\ Call(p)
  /\ \E ok \in Outcomes :
       /\ Fault(ok)
       /\ IF ok
          THEN /\ createNetwork(id)
               /\ Begin(p, "gi_probe",
                        [NoOp EXCEPT !.name = "AddNetwork", !.id = id, !.peer = peer],
                        [NoLoc EXCEPT !.giFor = "bridge"])
          ELSE /\ Return(p, "AddNetwork", PersistenceFailed)
               /\ UNCHANGED netEntity
  /\ UNCHANGED <<mutex, netProp, epEntity, epProp, kernel, removed, unlinked>>
  /\ UNCHANGED engine

\* addr, err := GetBridgeIP()
createBridge_GetBridgeIP(p) ==
  /\ pc[p] = "cb_getip"
  /\ IF GetBridgeIP = 0
     THEN Return(p, op[p].name, AllocationExhausted)
     ELSE StepLoc(p, "cb_addr", [loc[p] EXCEPT !.addr = GetBridgeIP])
  /\ UNCHANGED <<mutex, store, kernel, ncalls, nfaults, removed, unlinked>>
  /\ UNCHANGED engine

\* netlink.AddrList, then netlink.AddrAdd unless the address is there
createBridge_AddrAdd(p) ==
  /\ pc[p] = "cb_addr"
  /\ \E ok \in Outcomes :
       /\ Fault(ok)
       /\ IF ok /\ LinkByName(loc[p].bridge)
          THEN /\ addrs' = addrs \cup {<<loc[p].bridge, loc[p].addr>>}
               /\ Step(p, "cb_up")
          ELSE /\ Return(p, op[p].name, KernelOperationFailed)
               /\ UNCHANGED addrs
  /\ UNCHANGED <<mutex, store, links, ups, masters, ipForward, rules, chains,
                 ncalls, removed, unlinked>>
  /\ UNCHANGED engine

\* LinkSetUp with a rollback: the bridge is deleted when it cannot be set up
createBridge_LinkSetUp_rollback(p) ==
  /\ pc[p] = "cb_up"
  /\ \E ok \in Outcomes :
       /\ Fault(ok)
       /\ IF ok /\ LinkByName(loc[p].bridge)
          THEN /\ ups' = ups \cup {loc[p].bridge}
               /\ Step(p, "cb_ipt")
               /\ UNCHANGED <<links, addrs>>
          ELSE /\ Return(p, op[p].name, KernelOperationFailed)
               /\ links' = LinkDel(links, loc[p].bridge)
               /\ addrs' = {a \in addrs : a[1] # loc[p].bridge}
               /\ UNCHANGED ups
  /\ UNCHANGED <<mutex, store, masters, ipForward, rules, chains, ncalls,
                 removed, unlinked>>
  /\ UNCHANGED engine

\* netlink.LinkSetUp(dockerbridge)
createBridge_LinkSetUp(p) ==
  /\ pc[p] = "cb_up"
  /\ \E ok \in Outcomes :
       /\ Fault(ok)
       /\ IF ok /\ LinkByName(loc[p].bridge)
          THEN /\ ups' = ups \cup {loc[p].bridge}
               /\ Step(p, "cb_ipt")
          ELSE /\ Return(p, op[p].name, KernelOperationFailed)
               /\ UNCHANGED ups
  /\ UNCHANGED <<mutex, store, links, addrs, masters, ipForward, rules,
                 chains, ncalls, removed, unlinked>>
  /\ UNCHANGED engine

\* setupIPTables(id, addr, true, true); then, when an overlay is asked for,
\* net.InterfaceByName(device) and on to getInterface("vx" + id, vxlan)
createBridge_setupIPTables(p) ==
  /\ pc[p] = "cb_ipt"
  /\ \E failAt \in (IF nfaults < MaxFaults THEN 0..6 ELSE {0}) :
       LET r == setupIPTables(rules, ipForward, op[p].id, loc[p].addr,
                              op[p].icc, op[p].ipmasq, failAt)
           overlay == op[p].peer # "" /\ Device # "" /\ op[p].id # "default"
       IN  /\ rules' = r.rules
           /\ ipForward' = r.fwd
           /\ IF r.err # OK
              THEN Return(p, op[p].name, r.err) /\ Fault(FALSE)
              ELSE IF overlay /\ failAt = 6
              THEN Return(p, op[p].name, KernelOperationFailed) /\ Fault(FALSE)
              ELSE IF overlay
              THEN StepLoc(p, "gi_probe", [loc[p] EXCEPT !.giFor = "vxlan"])
                   /\ Fault(TRUE)
              ELSE Step(p, "cb_chain") /\ Fault(TRUE)
  /\ UNCHANGED <<mutex, store, links, addrs, ups, masters, chains, ncalls,
                 removed, unlinked>>
  /\ UNCHANGED engine

\* netlink.LinkSetMaster(vxlan, dockerbridge), then netlink.LinkSetUp(vxlan)
createBridge_LinkSetMaster(p) ==
  /\ pc[p] = "cb_setmaster"
  /\ \E ok \in Outcomes, okUp \in Outcomes :
       /\ Fault(ok /\ okUp)
       /\ IF ok /\ LinkByName(loc[p].vxlan) /\ LinkByName(loc[p].bridge)
          THEN /\ masters' = masters \cup {<<loc[p].vxlan, loc[p].bridge>>}
               /\ IF okUp
                  THEN /\ ups' = ups \cup {loc[p].vxlan}
                       /\ Step(p, "cb_chain")
                  ELSE /\ Return(p, op[p].name, KernelOperationFailed)
                       /\ UNCHANGED ups
          ELSE /\ Return(p, op[p].name, KernelOperationFailed)
               /\ UNCHANGED <<masters, ups>>
  /\ UNCHANGED <<mutex, store, links, addrs, ipForward, rules, chains,
                 ncalls, removed, unlinked>>
  /\ UNCHANGED engine

\* MakeChain(id, dockerbridge.LinkAttrs.Name), then saveNetwork's
\* setNetworkProperty(id, "bridgeInterface", bridge.bridge.Name)
createBridge_MakeChain(p) ==
  /\ pc[p] = "cb_chain"
  /\ \E ok \in Outcomes, okSet \in Outcomes :
       /\ Fault(ok /\ okSet)
       /\ IF ok
          THEN /\ chains' = chains \cup {<<op[p].id, loc[p].bridge>>}
               /\ IF okSet
                  THEN /\ setNetworkProperty(op[p].id, "bridgeInterface",
                                             loc[p].bridge)
                       /\ Step(p, "sn_addr")
                  ELSE /\ Return(p, op[p].name, PersistenceFailed)
                       /\ UNCHANGED <<netProp, netEntity>>
          ELSE /\ Return(p, op[p].name, KernelOperationFailed)
               /\ UNCHANGED <<chains, netProp, netEntity>>
  /\ UNCHANGED <<mutex, epEntity, epProp, links, addrs, ups, masters,
                 ipForward, rules, ncalls, removed, unlinked>>
  /\ UNCHANGED engine

\* saveNetwork: setNetworkProperty(id, "address", bridge.network.String())
saveNetwork_address(p) ==
  /\ pc[p] = "sn_addr"
  /\ \E ok \in Outcomes :
       /\ Fault(ok)
       /\ IF ok
          THEN /\ setNetworkProperty(op[p].id, "address", Itoa(loc[p].addr))
               /\ Return(p, op[p].name, OK)
          ELSE /\ Return(p, op[p].name, PersistenceFailed)
               /\ UNCHANGED <<netProp, netEntity>>
  /\ UNCHANGED <<mutex, epEntity, epProp, kernel, ncalls, removed, unlinked>>
  /\ UNCHANGED engine

\* ------------------------------------------------------------ RemoveNetwork
\* RemoveNetwork going on after loadNetwork failed
RemoveNetwork_errorIgnored(p, id) ==
  /\ Call(p)
  /\ removed' = removed \cup {id}
  /\ Begin(p, "rn_remove", [NoOp EXCEPT !.name = "RemoveNetwork", !.id = id],
           [NoLoc EXCEPT !.network = loadNetwork(id).net])
  /\ UNCHANGED <<mutex, store, kernel, nfaults, unlinked>>
  /\ UNCHANGED engine

\* the call and d.loadNetwork(id)
RemoveNetwork(p, id) ==
  /\ Call(p)
  /\ removed' = removed \cup {id}
  /\ IF loadNetwork(id).err # OK
     THEN Return(p, "RemoveNetwork", loadNetwork(id).err)
     ELSE Begin(p, "rn_remove", [NoOp EXCEPT !.name = "RemoveNetwork", !.id = id],
                [NoLoc EXCEPT !.network = loadNetwork(id).net])
  /\ UNCHANGED <<mutex, store, kernel, nfaults, unlinked>>
  /\ UNCHANGED engine

\* d.removeNetwork(id)
RemoveNetwork_removeNetwork(p) ==
  /\ pc[p] = "rn_remove"
  /\ \E ok \in Outcomes :
       /\ Fault(ok)
       /\ IF ok
          THEN /\ removeNetwork(op[p].id)
               /\ Step(p, "rn_destroy")
          ELSE /\ Return(p, "RemoveNetwork", PersistenceFailed)
               /\ UNCHANGED <<netEntity, netProp>>
  /\ UNCHANGED <<mutex, epEntity, epProp, kernel, ncalls, removed, unlinked>>
  /\ UNCHANGED engine

\* return bridge.destroy()
RemoveNetwork_destroy(p) ==
  /\ pc[p] = "rn_destroy"
  /\ \E failV \in {~ok : ok \in Outcomes}, failB \in {~ok : ok \in Outcomes} :
       LET r == destroyBridge(links, loc[p].network.bridge,
                              loc[p].network.vxlan, failV, failB)
           gone == LinkNames \ {l.name : l \in r.links}
       IN  /\ links' = r.links
           /\ addrs' = {a \in addrs : a[1] \notin gone}
           /\ ups' = ups \ gone
           /\ masters' = {m \in masters : m[1] \notin gone /\ m[2] \notin gone}
           /\ Fault(~failV /\ ~failB)
           /\ Return(p, "RemoveNetwork", r.err)
  /\ UNCHANGED <<mutex, store, ipForward, rules, chains, ncalls, removed, unlinked>>
  /\ UNCHANGED engine

\* --------------------------------------------------------------------- Link
\* Link without the check of the name's length
Link_noLengthCheck(p, id, name, replace) ==
  /\ Call(p)
  /\ Begin(p, "l_load",
           [NoOp EXCEPT !.name = "Link", !.id = id, !.ep = name,
                        !.replace = replace],
           NoLoc)
  /\ UNCHANGED <<mutex, store, kernel, nfaults, removed, unlinked>>
  /\ UNCHANGED engine

\* the call and the check of the name's length
Link(p, id, name, replace) ==
  /\ Call(p)
  /\ IF Len(name) > maxVethName
     THEN Return(p, "Link", NameTooLong)
     ELSE Begin(p, "l_load",
                [NoOp EXCEPT !.name = "Link", !.id = id, !.ep = name,
                             !.replace = replace],
                NoLoc)
  /\ UNCHANGED <<mutex, store, kernel, nfaults, removed, unlinked>>
  /\ UNCHANGED engine

\* d.mutex.Lock(), then d.loadNetwork(id)
Link_loadNetwork(p) ==
  /\ pc[p] = "l_load"
  /\ mutex = 0
  /\ IF loadNetwork(op[p].id).err # OK
     THEN Return(p, "Link", loadNetwork(op[p].id).err) /\ UNCHANGED mutex
     ELSE /\ Lock(p)
          /\ StepLoc(p, "l_check",
                     [loc[p] EXCEPT !.network = loadNetwork(op[p].id).net])
  /\ UNCHANGED <<store, kernel, ncalls, nfaults, removed, unlinked>>
  /\ UNCHANGED engine

\* if ep, err := d.loadEndpoint(id, name); ep != nil && err != nil && !replace
Link_loadEndpoint(p) ==
  /\ pc[p] = "l_check"
  /\ LET r == loadEndpoint(op[p].id, op[p].ep)
     IN  IF r.ep # NilEp /\ r.err # OK /\ ~op[p].replace
         THEN Return(p, "Link", AlreadyExists) /\ Unlock
         ELSE Step(p, "l_create") /\ UNCHANGED mutex
  /\ UNCHANGED <<store, kernel, ncalls, nfaults, removed, unlinked>>
  /\ UNCHANGED engine

\* d.createEndpoint(id, name), then ep.configure(name, s), which starts by
\* calling getInterface for the veth pair
Link_createEndpoint(p) ==
  /\ pc[p] = "l_create"
  /\ \E ok \in Outcomes :
       /\ Fault(ok)
       /\ IF ok
          THEN /\ createEndpoint(op[p].id, op[p].ep)
               /\ StepLoc(p, "gi_probe", [loc[p] EXCEPT !.giFor = "veth"])
               /\ UNCHANGED mutex
          ELSE /\ Return(p, "Link", PersistenceFailed)
               /\ Unlock
               /\ UNCHANGED epEntity
  /\ UNCHANGED <<netEntity, netProp, epProp, kernel, ncalls, removed, unlinked>>
  /\ UNCHANGED engine

\* ------------------------------------------------------------------- Unlink
\* the call: d.mutex.Lock(), then d.loadEndpoint(netid, name)
Unlink(p, id, name) ==
  /\ Call(p)
  /\ mutex = 0
  /\ LET r == loadEndpoint(id, name)
     IN  IF r.err # OK
         THEN Return(p, "Unlink", NoEndpoint) /\ UNCHANGED mutex
         ELSE /\ Lock(p)
              /\ Begin(p, "ul_deconfigure",
                       [NoOp EXCEPT !.name = "Unlink", !.id = id, !.ep = name],
                       [NoLoc EXCEPT !.ep = r.ep])
  /\ UNCHANGED <<store, kernel, nfaults, removed, unlinked>>
  /\ UNCHANGED engine

\* Unlink_deconfigure with the error of ep.deconfigure dropped
Unlink_deconfigure_errorDropped(p) ==
  /\ pc[p] = "ul_deconfigure"
  /\ \E ok \in Outcomes :
       /\ Fault(ok)
       /\ IF ok /\ LinkByName(loc[p].ep.interfaceName)
          THEN deconfigure(loc[p].ep)
          ELSE UNCHANGED <<links, ups, masters>>
  /\ Step(p, "ul_remove")
  /\ UNCHANGED <<mutex, store, addrs, ipForward, rules, chains, ncalls, removed,
                 unlinked>>
  /\ UNCHANGED engine

\* ep.deconfigure(name): the veth pair goes; on an error Unlink returns it
Unlink_deconfigure(p) ==
  /\ pc[p] = "ul_deconfigure"
  /\ \E ok \in Outcomes :
       /\ Fault(ok)
       /\ IF ok /\ LinkByName(loc[p].ep.interfaceName)
          THEN /\ deconfigure(loc[p].ep)
               /\ Step(p, "ul_remove")
               /\ UNCHANGED mutex
          ELSE /\ Return(p, "Unlink", KernelOperationFailed)
               /\ Unlock
               /\ UNCHANGED <<links, ups, masters>>
  /\ UNCHANGED <<store, addrs, ipForward, rules, chains, ncalls, removed, unlinked>>
  /\ UNCHANGED engine

\* d.removeEndpoint(netid, name)
Unlink_removeEndpoint(p) ==
  /\ pc[p] = "ul_remove"
  /\ Unlock
  /\ \E ok \in Outcomes :
       /\ Fault(ok)
       /\ IF ok
          THEN /\ removeEndpoint(op[p].id, op[p].ep)
               /\ unlinked' = unlinked \cup {<<op[p].id, op[p].ep>>}
               /\ Return(p, "Unlink", OK)
          ELSE /\ Return(p, "Unlink", PersistenceFailed)
               /\ UNCHANGED <<epEntity, epProp, unlinked>>
  /\ UNCHANGED <<netEntity, netProp, kernel, ncalls, removed>>
  /\ UNCHANGED engine

\* -------------------------------------------------------------------- Next
Next ==
  \E p \in Procs :
    \/ \E id \in NetIds : GetNetwork(p, id)
    \/ GetNetwork_loadNetwork(p)
    \/ \E id \in NetIds, peer \in Peers : AddNetwork(p, id, peer)
    \/ getInterface_probe(p)
    \/ getInterface_add(p)
    \/ createBridge_GetBridgeIP(p)
    \/ createBridge_AddrAdd(p)
    \/ createBridge_LinkSetUp(p)
    \/ createBridge_setupIPTables(p)
    \/ createBridge_LinkSetMaster(p)
    \/ createBridge_MakeChain(p)
    \/ saveNetwork_address(p)
    \/ \E id \in NetIds : RemoveNetwork(p, id)
    \/ RemoveNetwork_removeNetwork(p)
    \/ RemoveNetwork_destroy(p)
    \/ \E id \in NetIds, name \in EpNames, replace \in BOOLEAN :
         Link(p, id, name, replace)
    \/ Link_loadNetwork(p)
    \/ Link_loadEndpoint(p)
    \/ Link_createEndpoint(p)
    \/ \E id \in NetIds, name \in EpNames : Unlink(p, id, name)
    \/ Unlink_deconfigure(p)
    \/ Unlink_removeEndpoint(p)

Spec == Init /\ [][Next]_vars

\* ================================================================== helpers
\* The driver's helpers called on their own, over chosen kernel states:
\* getInterface called again and again for the prefix "net", setupIPTables
\* called with any flags on any chain, destroyBridge called on a network
\* with an overlay.

\* the devices named prefix + s for the suffixes s in S
Devices(prefix, S) ==
  {[name |-> prefix \o ToString(s), kind |-> "bridge", prefix |-> prefix] : s \in S}

\* the rules a chain may hold for the bridge "net" before the driver runs
RuleUniverse ==
  {NatRule("net", 1), AcceptRule("net"), DropRule("net"), OutgoingRule("net"),
   ExistingRule("net")}

\* the chains of at most n such rules
RECURSIVE Chains(_)
Chains(n) ==
  IF n = 0 THEN {<<>>}
  ELSE Chains(n - 1) \cup
       {Insert(rs, r) : rs \in {c \in Chains(n - 1) : Len(c) = n - 1},
                        r \in RuleUniverse}

\* nothing persisted, no address, no chain, nobody holding the mutex
Blank ==
  /\ NewEngine
  /\ netEntity = {}
  /\ netProp = [i \in NetIds |-> NoNetProp]
  /\ epEntity = {}
  /\ epProp = [k \in NetIds \X EpNames |-> NoEpProp]
  /\ addrs = {}
  /\ ups = {}
  /\ masters = {}
  /\ ipForward = FALSE
  /\ chains = {}
  /\ mutex = 0
  /\ ncalls = 0
  /\ nfaults = 0
  /\ removed = {}
  /\ unlinked = {}
  /\ ret = [p \in Procs |-> NoRet]

\* the suffixes taken before the first call: any of the first MaxLive, or
\* all below a number around maxVethSuffix
Taken ==
  SUBSET (0..(MaxLive - 1)) \cup
  {0..(n - 1) : n \in (maxVethSuffix - 1)..(maxVethSuffix + 1)}

\* every caller about to call getInterface("net", bridge), some names taken
InitGetInterface ==
  /\ Blank
  /\ \E S \in Taken : links = Devices("net", S)
  /\ rules = <<>>
  /\ pc = [p \in Procs |-> "gi_probe"]
  /\ op = [p \in Procs |-> [NoOp EXCEPT !.name = "getInterface", !.id = "net"]]
  /\ loc = [p \in Procs |-> [NoLoc EXCEPT !.giFor = "bridge"]]

\* caller 1 about to call setupIPTables("net", 1, icc, ipmasq), again and
\* again, on any chain
InitSetupIPTables ==
  /\ Blank
  /\ links = {}
  /\ rules \in Chains(MaxRules)
  /\ pc = [p \in Procs |-> IF p = 1 THEN "ipt" ELSE "idle"]
  /\ op = [p \in Procs |->
             IF p = 1 THEN [NoOp EXCEPT !.name = "setupIPTables", !.id = "net"]
             ELSE NoOp]
  /\ loc = [p \in Procs |-> IF p = 1 THEN [NoLoc EXCEPT !.addr = 1] ELSE NoLoc]

\* caller 1 about to destroy the bridge net0 of a network, with or without
\* its overlay vxnet0, the kernel refusing to delete the busy devices
InitDestroyBridge ==
  /\ Blank
  /\ links = Devices("net", {0}) \cup
             {[name |-> "vxnet0", kind |-> "vxlan", prefix |-> "vxnet"]}
  /\ rules = <<>>
  /\ pc = [p \in Procs |-> IF p = 1 THEN "db" ELSE "idle"]
  /\ op = [p \in Procs |->
             IF p = 1 THEN [NoOp EXCEPT !.name = "destroyBridge", !.id = "net"]
             ELSE NoOp]
  /\ \E v \in {"", "vxnet0"}, busy \in SUBSET {"net0", "vxnet0"} :
       loc = [p \in Procs |->
                IF p = 1
                THEN [NoLoc EXCEPT !.bridge = "net0", !.vxlan = v, !.busy = busy]
                ELSE NoLoc]

InitHelpers == InitGetInterface \/ InitSetupIPTables \/ InitDestroyBridge

\* the caller of getInterface has its device and asks for the next one
getInterface_again(p) ==
  /\ pc[p] = "cb_getip"
  /\ op[p].name = "getInterface"
  /\ ncalls < MaxCalls
  /\ ncalls' = ncalls + 1
  /\ Step(p, "gi_probe")
  /\ UNCHANGED <<mutex, store, kernel, nfaults, removed, unlinked>>
  /\ UNCHANGED engine

\* between the probe and netlink.LinkAdd another program on the host creates
\* a device under the name probed
LinkAdd_raced(p) ==
  /\ pc[p] = "gi_add"
  /\ op[p].name = "getInterface"
  /\ ~LinkByName(loc[p].ethName)
  /\ nfaults < MaxFaults
  /\ nfaults' = nfaults + 1
  /\ links' = links \cup
       {[name |-> loc[p].ethName, kind |-> "bridge", prefix |-> Prefix(p)]}
  /\ UNCHANGED <<mutex, store, addrs, ups, masters, ipForward, rules, chains,
                 pc, op, loc, ret, ncalls, removed, unlinked>>
  /\ UNCHANGED engine

\* one call of setupIPTables("net", 1, icc, ipmasq)
setupIPTables_call(p, icc, ipmasq) ==
  /\ pc[p] = "ipt"
  /\ ncalls < MaxCalls
  /\ ncalls' = ncalls + 1
  /\ \E failAt \in (IF nfaults < MaxFaults THEN 0..5 ELSE {0}) :
       LET r == setupIPTables(rules, ipForward, op[p].id, loc[p].addr,
                              icc, ipmasq, failAt)
       IN  /\ rules' = r.rules
           /\ ipForward' = r.fwd
           /\ Fault(r.err = OK)
           /\ ret' = [ret EXCEPT ![p] = [op |-> "setupIPTables", err |-> r.err]]
  /\ op' = [op EXCEPT ![p].icc = icc, ![p].ipmasq = ipmasq]
  /\ UNCHANGED <<mutex, store, links, addrs, ups, masters, chains, pc, loc,
                 removed, unlinked>>
  /\ UNCHANGED engine

\* one call of destroyBridge(b, v)
destroyBridge_call(p) ==
  /\ pc[p] = "db"
  /\ LET r == destroyBridge(links, loc[p].bridge, loc[p].vxlan,
                            loc[p].vxlan \in loc[p].busy,
                            loc[p].bridge \in loc[p].busy)
     IN  /\ links' = r.links
         /\ Fault(r.err = OK)
         /\ pc' = [pc EXCEPT ![p] = "idle"]
         /\ ret' = [ret EXCEPT ![p] = [op |-> "destroyBridge", err |-> r.err]]
  /\ UNCHANGED <<mutex, store, addrs, ups, masters, ipForward, rules, chains,
                 op, loc, ncalls, removed, unlinked>>
  /\ UNCHANGED engine

NextHelpers ==
  \E p \in Procs :
    \/ getInterface_probe(p)
    \/ getInterface_add(p)
    \/ getInterface_again(p)
    \/ LinkAdd_raced(p)
    \/ \E icc \in BOOLEAN, ipmasq \in BOOLEAN : setupIPTables_call(p, icc, ipmasq)
    \/ destroyBridge_call(p)

SpecHelpers == InitHelpers /\ [][NextHelpers]_vars

\* ===================================================================== jobs
\* Job.Run called by the callers on the jobs of one engine, while the engine
\* may be shut down.

\* the deferred unregister(): the entry of this Run call leaves Eng.running
\* and Eng.tasks is decremented; nothing was deferred for "serveapi"
unregister(p) ==
  IF op[p].job # "serveapi"
  THEN /\ running' = running \ {<<p, op[p].job>>}
       /\ tasks' = tasks - 1
  ELSE UNCHANGED <<running, tasks>>

\* the call and job.Eng.IsShutdown()
Run(p, j) ==
  /\ Call(p)
  /\ IF shutdown
     THEN Return(p, "Run", EngineShutdown)
     ELSE Begin(p, IF j # "serveapi" THEN "r_register" ELSE "r_end",
                [NoOp EXCEPT !.name = "Run", !.job = j], NoLoc)
  /\ UNCHANGED <<driver, engine, nfaults>>

\* register(): under Eng.l, tasks.Add(1) and running.PushBack(job)
Run_register(p) ==
  /\ pc[p] = "r_register"
  /\ running' = running \cup {<<p, op[p].job>>}
  /\ tasks' = tasks + 1
  /\ Step(p, "r_end")
  /\ UNCHANGED <<driver, shutdown, jobEnd, jobStatus, handled, ncalls, nfaults>>

\* if !job.end.IsZero(): the job has already completed
Run_end(p) ==
  /\ pc[p] = "r_end"
  /\ IF op[p].job \in jobEnd
     THEN Return(p, "Run", AlreadyCompleted) /\ unregister(p)
     ELSE Step(p, "r_handler") /\ UNCHANGED <<running, tasks>>
  /\ UNCHANGED <<driver, shutdown, jobEnd, jobStatus, handled, ncalls, nfaults>>

\* job.handler == nil: status 127; else the job is handed to its handler
Run_handler(p) ==
  /\ pc[p] = "r_handler"
  /\ IF op[p].job = "nocommand"
     THEN /\ jobStatus' = [jobStatus EXCEPT ![op[p].job] = StatusNotFound]
          /\ Step(p, "r_close")
          /\ UNCHANGED handled
     ELSE /\ handled' = [handled EXCEPT ![op[p].job] = @ + 1]
          /\ Step(p, "r_return")
          /\ UNCHANGED jobStatus
  /\ UNCHANGED <<driver, shutdown, running, tasks, jobEnd, ncalls, nfaults>>

\* the handler returns its status, then job.end = time.Now()
Run_handlerReturns(p) ==
  /\ pc[p] = "r_return"
  /\ \E st \in {StatusOK, StatusErr} :
       jobStatus' = [jobStatus EXCEPT ![op[p].job] = st]
  /\ jobEnd' = jobEnd \cup {op[p].job}
  /\ Step(p, "r_close")
  /\ UNCHANGED <<driver, shutdown, running, tasks, handled, ncalls, nfaults>>

\* the streams are closed, the status is looked at, the deferred unregister
Run_close(p) ==
  /\ pc[p] = "r_close"
  /\ \E ok \in Outcomes :
       /\ Fault(ok)
       /\ IF ~ok THEN Return(p, "Run", CloseFailed)
          ELSE IF jobStatus[op[p].job] # 0 THEN Return(p, "Run", JobFailed)
          ELSE Return(p, "Run", OK)
  /\ unregister(p)
  /\ UNCHANGED <<driver, shutdown, jobEnd, jobStatus, handled, ncalls>>

\* the engine is shut down
Shutdown ==
  /\ ~shutdown
  /\ shutdown' = TRUE
  /\ UNCHANGED <<driver, running, tasks, jobEnd, jobStatus, handled, pc, op,
                 loc, ret, ncalls, nfaults>>

InitJobs ==
  /\ Blank
  /\ links = {}
  /\ rules = <<>>
  /\ pc = [p \in Procs |-> "idle"]
  /\ op = [p \in Procs |-> NoOp]
  /\ loc = [p \in Procs |-> NoLoc]

NextJobs ==
  \/ \E p \in Procs :
       \/ \E j \in Jobs : Run(p, j)
       \/ Run_register(p)
       \/ Run_end(p)
       \/ Run_handler(p)
       \/ Run_handlerReturns(p)
       \/ Run_close(p)
  \/ Shutdown

SpecJobs == InitJobs /\ [][NextJobs]_vars

\* =================================================================== claims
\* caller p takes the step
Actor(p) == pc'[p] # pc[p] \/ op'[p] # op[p] \/ ret'[p] # ret[p]

\* the step changes the property store or the kernel
Mutates == store' # store \/ kernel' # kernel

\* the endpoints of network id other than name, with their addresses
OtherAddresses(id, name) ==
  {ParseUint(epProp[<<id, e>>].ip) : e \in Linked(id) \ {name}}

\* the endpoint has persisted properties
Persisted(id, name) == epProp[<<id, name>>] # NoEpProp

\* C1: every step of an operation that changes kernel or persisted state is
\* taken by a caller that holds the driver's lock, so no two operations
\* interleave their mutating steps.
C1_MutatingStepsHoldLock ==
  [][\A p \in Procs : (Actor(p) /\ Mutates) => (mutex = p \/ mutex' = p)]_vars

C3_ExistingEndpointRejected ==
  \A p \in Procs :
    (op[p].name = "Link" /\ ~op[p].replace /\ Persisted(op[p].id, op[p].ep))
      => pc[p] \in {"l_load", "l_check"}

\* caller p waits for the mutex it locked itself: nobody else can unlock it
SelfDeadlocked(p) == pc[p] = "gi_probe" /\ mutex = p

\* C4: a Link with replace=true on an endpoint with persisted properties
\* succeeds and overwrites its four properties: in particular the call is
\* never stuck before it has written them.
C4_ReplaceLinkGoesOn ==
  \A p \in Procs :
    (op[p].name = "Link" /\ op[p].replace /\ Persisted(op[p].id, op[p].ep))
      => ~SelfDeadlocked(p)

BridgesOf(id) == {l \in links : l.kind = "bridge" /\ l.prefix = id}

\* C6: calling AddNetwork twice with the same id never results in two live
\* bridge devices for that id.
C6_OneBridgePerId ==
  \A id \in NetIds : id \notin removed => Cardinality(BridgesOf(id)) <= 1

\* network id is persisted in full
Saved(id) == netProp[id].bridgeInterface # "" /\ netProp[id].address # ""

\* C7: with only successful AddNetwork calls made, under any interleaving,
\* two different network ids have different bridge names and different,
\* non-overlapping subnets.
C7_DistinctNamesAndSubnets ==
  (removed = {} /\ nfaults = 0)
    => \A i \in NetIds, j \in NetIds :
         (i # j /\ Saved(i) /\ Saved(j))
           => /\ netProp[i].bridgeInterface # netProp[j].bridgeInterface
              /\ netProp[i].address # netProp[j].address

\* C8: RemoveNetwork deletes the overlay device, then the bridge device, and
\* only then removes the persisted properties: a step of it that removes the
\* properties finds the bridge gone, and when a deletion in the kernel fails
\* the properties are still there.
C8_PropertiesRemovedLast ==
  [][\A p \in Procs :
       /\ (op[p].name = "RemoveNetwork" /\ Actor(p)
             /\ netProp[op[p].id] # NoNetProp /\ netProp'[op[p].id] = NoNetProp)
            => ~LinkByName(loc[p].network.bridge)
       /\ (op[p].name = "RemoveNetwork" /\ Actor(p)
             /\ ret'[p] = [op |-> "RemoveNetwork", err |-> KernelOperationFailed])
            => netProp'[op[p].id] # NoNetProp]_vars

\* C9: after a successful AddNetwork followed by a successful RemoveNetwork
\* of the same id, with nothing failing and nobody else calling, no kernel
\* device of that network (bridge, overlay) and no persisted property of it
\* remains.
C9_RemoveLeavesNothing ==
  [][\A p \in Procs :
       (/\ op[p].name = "RemoveNetwork"
        /\ ret'[p] = [op |-> "RemoveNetwork", err |-> OK]
        /\ nfaults' = 0
        /\ \A q \in Procs \ {p} : pc[q] = "idle")
         => /\ netProp'[op[p].id] = NoNetProp
            /\ \A l \in links' :
                 /\ l.name # loc[p].network.bridge
                 /\ ~(l.kind = "vxlan" /\ l.prefix = "vx" \o op[p].id)]_vars

\* C10: Unlink tears the kernel side down before it touches the store: a call
\* for an endpoint without persisted properties returns the "no endpoint"
\* error and changes nothing, the endpoint's properties are removed only by
\* the step after a deconfigure that deleted the veth device, and a failed
\* deconfigure returns with the properties intact.
C10_UnlinkTearsDownFirst ==
  [][\A p \in Procs :
       /\ (pc[p] = "idle" /\ op'[p].name = "Unlink")
            => Persisted(op'[p].id, op'[p].ep)
       /\ (pc[p] = "idle" /\ ret'[p] = [op |-> "Unlink", err |-> NoEndpoint]
             /\ \A q \in Procs \ {p} : ~Actor(q))
            => (store' = store /\ kernel' = kernel)
       /\ (op[p].name = "Unlink" /\ Actor(p)
             /\ (epProp' # epProp \/ epEntity' # epEntity))
            => (pc[p] = "ul_remove" /\ ~LinkByName(loc[p].ep.interfaceName))
       /\ (op[p].name = "Unlink"
             /\ ret'[p] = [op |-> "Unlink", err |-> KernelOperationFailed])
            => (store' = store /\ Persisted(op[p].id, op[p].ep))]_vars

\* one Unlink returned the error of a failed deconfigure and left the
\* endpoint's properties; another is past its deconfigure, the veth device
\* deleted and the properties not yet removed
C10_Witness ==
  \E p \in Procs, q \in Procs :
    /\ ret[q] = [op |-> "Unlink", err |-> KernelOperationFailed]
    /\ pc[p] = "ul_remove"
    /\ Persisted(op[p].id, op[p].ep)
    /\ ~LinkByName(loc[p].ep.interfaceName)

\* C11: Link persists an endpoint only after its kernel configuration
\* succeeded: every endpoint the store holds an entry for has been configured
\* and saved, and a Link whose configure does not succeed leaves no entry.
C11_EntryOnlyAfterConfigure ==
  \A k \in epEntity : Persisted(k[1], k[2])

\* C12: the interface-name allocator returns the prefix followed by the
\* smallest non-negative suffix whose name no live device holds: the name it
\* returns is not live, and every smaller suffix of the prefix is.
C12_SmallestFreeSuffix ==
  [][\A p \in Procs :
       (pc[p] = "gi_probe" /\ pc'[p] = "gi_add") =>
         \E s \in 0..maxVethSuffix :
           /\ loc'[p].ethName = Prefix(p) \o ToString(s)
           /\ ~LinkByName(loc'[p].ethName)
           /\ \A t \in 0..(s - 1) : LinkByName(Prefix(p) \o ToString(t))]_vars

\* net0 and net2 are live and the allocator has chosen net1
C12_Witness ==
  \E p \in Procs :
    /\ pc[p] = "gi_add"
    /\ loc[p].ethName = "net1"
    /\ LinkByName("net0")
    /\ LinkByName("net2")

\* C13: for the prefix "net" the allocator serves the suffixes 0 through 99:
\* it reports AllocationExhausted only when net0 .. net99 are all live.
C13_ServesZeroToNinetyNine ==
  \A p \in Procs :
    ret[p] = [op |-> "getInterface", err |-> AllocationExhausted] =>
      \A s \in 0..99 : LinkByName("net" \o ToString(s))

\* C14: when the kernel refuses the creation because the name probed was taken
\* between the probe and the creation, the allocator does not return an error
\* unless every name of the suffix space is live.
C14_TakenNameRetried ==
  [][\A p \in Procs :
       (pc[p] = "gi_add" /\ LinkByName(loc[p].ethName) /\ pc'[p] = "idle") =>
         \A s \in 0..(maxVethSuffix - 1) :
           LinkByName(Prefix(p) \o ToString(s))]_vars

\* the number of copies of rule r in the chain rs
Copies(rs, r) == Cardinality({i \in 1..Len(rs) : rs[i] = r})

\* C15: firewall rule installation is idempotent: a caller that repeats its
\* last successful setupIPTables call with the same flags, nobody else having
\* touched the chain, leaves the chain exactly as the first call left it.
C15_SetupIPTablesIdempotent ==
  [][\A p \in Procs :
       (/\ pc[p] = "ipt"
        /\ ret[p] = [op |-> "setupIPTables", err |-> OK]
        /\ ncalls = 1
        /\ ncalls' = 2
        /\ op'[p] = op[p]
        /\ ret'[p] = ret[p]) => rules' = rules]_vars

C17_LongNameRejectedFirst ==
  [][\A p \in Procs :
       /\ op'[p].name = "Link" => Len(op'[p].ep) <= maxVethName
       /\ (pc[p] = "idle" /\ ncalls' = ncalls + 1) =>
            \A id \in NetIds, name \in EpNames, replace \in BOOLEAN :
              Link(p, id, name, replace) =>
                IF Len(name) > maxVethName
                THEN /\ pc'[p] = "idle"
                     /\ ret'[p] = [op |-> "Link", err |-> NameTooLong]
                     /\ UNCHANGED <<mutex, store, kernel>>
                ELSE /\ pc'[p] = "l_load"
                     /\ op'[p].ep = name]_vars

\* one Link was rejected for its name, another with a name of exactly
\* maxVethName characters is in progress
C17_Witness ==
  \E p, q \in Procs :
    /\ ret[q] = [op |-> "Link", err |-> NameTooLong]
    /\ op[p].name = "Link"
    /\ Len(op[p].ep) = maxVethName

\* C18: GetNetwork and RemoveNetwork for an id whose properties cannot be
\* loaded return NotFound and leave the store and the kernel unchanged, and
\* no step of GetNetwork changes the store or the kernel, whatever it returns.
C18_NotFoundChangesNothing ==
  [][\A p \in Procs :
       /\ (pc[p] = "gn_load" /\ pc'[p] = "idle") =>
            /\ UNCHANGED <<mutex, store, kernel>>
            /\ ret'[p].op = "GetNetwork"
            /\ loadNetwork(op[p].id).err # OK => ret'[p].err = NotFound
       /\ (pc[p] = "idle" /\ ncalls' = ncalls + 1) =>
            \A id \in NetIds :
              /\ GetNetwork(p, id) => UNCHANGED <<mutex, store, kernel>>
              /\ (RemoveNetwork(p, id) /\ loadNetwork(id).err # OK) =>
                   /\ pc'[p] = "idle"
                   /\ ret'[p] = [op |-> "RemoveNetwork", err |-> NotFound]
                   /\ UNCHANGED <<mutex, store, kernel>>]_vars

\* one caller's GetNetwork and the other's RemoveNetwork both returned NotFound
C18_Witness ==
  \E p, q \in Procs :
    /\ ret[p] = [op |-> "GetNetwork", err |-> NotFound]
    /\ ret[q] = [op |-> "RemoveNetwork", err |-> NotFound]

\* C19: destroying a network's devices attempts both deletions: when the
\* deletion of the overlay device fails the bridge is still deleted if the
\* kernel lets it go.
C19_BothDeletionsAttempted ==
  [][\A p \in Procs :
       (pc[p] = "db" /\ pc'[p] = "idle") =>
         (loc[p].bridge \notin loc[p].busy =>
            ~(\E l \in links' : l.name = loc[p].bridge))]_vars

\* C20: whenever the process stops, between two property writes of a save
\* or elsewhere, the next load of a network reports it absent or returns
\* fields that come from one save: the bridge loaded is the device that
\* carries the address loaded (no device being deleted meanwhile).
C20_LoadedFieldsFromOneSave ==
  \A id \in NetIds :
    (removed = {} /\ loadNetwork(id).err = OK) =>
      <<loadNetwork(id).net.bridge, loadNetwork(id).net.network>> \in addrs

C22_NoLockWhileHolding ==
  \A p \in Procs : ~(pc[p] = "gi_probe" /\ mutex = p)

\* C23: when AddNetwork(id) succeeds, the firewall rules installed for the
\* network name the bridge device that the allocator created and that is
\* persisted as bridgeInterface.
C23_RulesNameTheBridge ==
  [][\A p \in Procs :
       (/\ op[p].name = "AddNetwork"
        /\ pc[p] = "sn_addr"
        /\ ret'[p] = [op |-> "AddNetwork", err |-> OK]) =>
         /\ Exists(rules', NatRule(loc[p].bridge, loc[p].addr))
         /\ Exists(rules', AcceptRule(loc[p].bridge))
         /\ Exists(rules', OutgoingRule(loc[p].bridge))
         /\ Exists(rules', ExistingRule(loc[p].bridge))]_vars

\* C24: a job whose handler has completed is never handed to its handler a
\* second time: whenever a job is handed to its handler, its end time is not
\* set.
C24_HandledOnce ==
  [][\A j \in Jobs : handled'[j] # handled[j] => j \notin jobEnd]_vars

====
